---- MODULE Spec2Model ----
(***************************************************************************)
(* Model of run.py, the VUnit configuration script of dcpu16-core.         *)
(*                                                                         *)
(* The script is a straight line of seven calls into the VUnit framework:  *)
(*   5  vu = VUnit.from_argv()                                             *)
(*   9  vu.add_vhdl_builtins()                                             *)
(*  14  lib = vu.add_library("dcpu16_lib")                                 *)
(*  17  lib.add_source_files("src/*.vhd", vhdl_standard="2008")            *)
(*  20  test_lib = vu.add_library("dcpu16_test_lib")                       *)
(*  21  test_lib.add_source_files("src/test/*.vhd", vhdl_standard="2008")  *)
(*  24  vu.main()                                                          *)
(* There is no try/except: whatever a call raises ends the process.        *)
(*                                                                         *)
(* The state is the script's three variables (vu, lib, test_lib), the      *)
(* position in the script, the files on disk, and what the process has     *)
(* done so far (the calls made, the exception in flight, the exit status). *)
(* Paths and patterns are sequences of one-character strings so that the   *)
(* glob patterns are matched character by character.                       *)
(***************************************************************************)
EXTENDS Naturals, Integers, Sequences, FiniteSets, TLC

\* Most files on disk at any one time.
MaxFiles == 3

----------------------------------------------------------------------------
\* Paths and the literals of the script

SRC == <<"s", "r", "c">>
TEST == <<"t", "e", "s", "t">>
VHD == <<".", "v", "h", "d">>
SEP == <<"/">>

\* run.py:14
DesignLibName == "dcpu16_lib"

TestLibNameSameAsDesign == "dcpu16_lib"

\* run.py:20
TestLibName == "dcpu16_test_lib"

DesignPatternAnyEnding == SRC \o SEP \o <<"*">>

\* run.py:17, "src/*.vhd"
DesignPattern == SRC \o SEP \o <<"*">> \o VHD

TestPatternSameAsDesign == SRC \o SEP \o <<"*">> \o VHD

\* run.py:21, "src/test/*.vhd"
TestPattern == SRC \o SEP \o TEST \o SEP \o <<"*">> \o VHD

\* run.py:17 and 21, vhdl_standard="2008"
VhdlStandard == "2008"

\* run.py:17 and 21 pass no allow_empty, so the framework's default applies.
AllowEmpty == FALSE

\* run.py:14 and 20 pass no allow_duplicate, so the framework's default applies.
AllowDuplicate == FALSE

\* The files that may be on disk: in src/, in src/test/, elsewhere, with and
\* without the .vhd ending, hidden, and one level too deep.
Candidates ==
    { SRC \o SEP \o <<"a">> \o VHD,                          \* src/a.vhd
      SRC \o SEP \o TEST \o VHD,                             \* src/test.vhd
      SRC \o SEP \o <<"a", ".", "v">>,                       \* src/a.v
      SRC \o SEP \o VHD,                                     \* src/.vhd
      SRC \o SEP \o TEST \o SEP \o <<"a">> \o VHD,           \* src/test/a.vhd
      SRC \o SEP \o TEST \o SEP \o <<"t", "b">> \o VHD,      \* src/test/tb.vhd
      SRC \o SEP \o TEST \o SEP \o <<"x">> \o SEP \o <<"d">> \o VHD, \* src/test/x/d.vhd
      <<"a">> \o VHD,                                        \* a.vhd
      TEST \o SEP \o <<"a">> \o VHD }                        \* test/a.vhd

----------------------------------------------------------------------------
\* glob.glob as add_source_files applies it to its pattern

\* The components of a path, split at "/": component k is the run of
\* characters between separator k-1 and separator k.
Split(p) ==
    LET seps(i) == Cardinality({ j \in 1..i : p[j] = "/" })
        at(k) == { i \in 1..Len(p) : p[i] # "/" /\ seps(i) = k - 1 }
        first(k) == CHOOSE i \in at(k) : \A j \in at(k) : i <= j
    IN  [ k \in 1..(seps(Len(p)) + 1) |->
            IF at(k) = {} THEN <<>>
            ELSE SubSeq(p, first(k), first(k) + Cardinality(at(k)) - 1) ]

\* fnmatch of one name against one pattern component: "*" is any run of
\* characters, "?" is any one character, anything else is itself.
RECURSIVE FnMatch(_, _)
FnMatch(name, pat) ==
    IF pat = <<>> THEN name = <<>>
    ELSE IF Head(pat) = "*"
         THEN FnMatch(name, Tail(pat))
              \/ (name # <<>> /\ FnMatch(Tail(name), pat))
    ELSE IF Head(pat) = "?"
         THEN name # <<>> /\ FnMatch(Tail(name), Tail(pat))
    ELSE name # <<>> /\ Head(name) = Head(pat) /\ FnMatch(Tail(name), Tail(pat))

HasMagic(pat) == \E i \in 1..Len(pat) : pat[i] \in {"*", "?", "["}

IsHidden(name) == name # <<>> /\ name[1] = "."

\* A wildcard component does not match a hidden name unless it is hidden
\* itself; a component without wildcards matches only itself.
ComponentMatch(name, pat) ==
    IF HasMagic(pat)
    THEN (IsHidden(pat) \/ ~IsHidden(name)) /\ FnMatch(name, pat)
    ELSE name = pat

\* The files of `files` the pattern matches: same depth, every component
\* matching ("*" never crosses a "/").
Glob(pattern, files) ==
    { f \in files :
        LET fp == Split(f)
            pp == Split(pattern)
        IN  /\ Len(fp) = Len(pp)
            /\ \A i \in 1..Len(pp) : ComponentMatch(fp[i], pp[i]) }

----------------------------------------------------------------------------
\* State

VARIABLES
    pc,          \* the statement about to run, or "exited"
    fs,          \* the files on disk
    argv,        \* the command line, as the runner's parser classifies it
    vu,          \* the runner object: [bound, builtins, libraries]
    lib,         \* the design library object, or NoLibrary before line 14
    test_lib,    \* the test library object, or NoLibrary before line 20
    calls,       \* history: the framework calls made, in order
    globs,       \* history: what each add_source_files call's pattern matched
    outcome,     \* what compiling and simulating gave: "unset" until run
    reported,    \* the status the run call reported, -1 while it has not
    exc,         \* the exception that ended the script, or NoException
    exitStatus   \* the process exit status, -1 while running

vars == <<pc, fs, argv, vu, lib, test_lib, calls, globs, outcome, reported, exc, exitStatus>>

NoLibrary == [name |-> "", source_files |-> <<>>, bound |-> FALSE]

NoException == [kind |-> "none", code |-> 0, cause |-> "none", at |-> "none"]

\* The statements of the script, in file order.
Steps ==
    << "from_argv", "add_vhdl_builtins", "add_library_design",
       "add_source_files_design", "add_library_test",
       "add_source_files_test", "main" >>

SetupSteps == { Steps[i] : i \in 1..6 }

StepIndex(step) == CHOOSE i \in 1..Len(Steps) : Steps[i] = step

SuccessorSwapped(step) ==
    CASE step = "add_library_design" -> "add_library_test"
      [] step = "add_library_test" -> "add_source_files_design"
      [] step = "add_source_files_design" -> "add_source_files_test"
      [] step = "main" -> "exited"
      [] OTHER -> Steps[StepIndex(step) + 1]

\* The statement after `step`: the next line of the file; after the last
\* one the interpreter leaves the script.
Successor(step) ==
    IF StepIndex(step) = Len(Steps) THEN "exited" ELSE Steps[StepIndex(step) + 1]

Init ==
    /\ pc = "from_argv"
    /\ fs \in { s \in SUBSET Candidates : Cardinality(s) <= MaxFiles }
    /\ argv \in {"ok", "help", "bad"}
    /\ vu = [bound |-> FALSE, builtins |-> "none", libraries |-> <<>>]
    /\ lib = NoLibrary
    /\ test_lib = NoLibrary
    /\ calls = <<>>
    /\ globs = <<>>
    /\ outcome = "unset"
    /\ reported = -1
    /\ exc = NoException
    /\ exitStatus = -1

----------------------------------------------------------------------------
\* Exceptions.  The script catches nothing.

Error(cause) == [kind |-> "Error", code |-> 1, cause |-> cause]

SystemExit(code, cause) == [kind |-> "SystemExit", code |-> code, cause |-> cause]

ProcessStatusMasked(e) == 0

ProcessStatusAlwaysOne(e) == 1

\* The interpreter's exit status for an exception nothing caught: the code a
\* SystemExit carries, 1 for any other exception.
ProcessStatus(e) == IF e.kind = "SystemExit" THEN e.code ELSE 1

OnRaiseContinue(step) == Successor(step)

OnRaiseRetry(step) == step

\* Where control goes when `step` raises: out of the script.
OnRaise(step) == "exited"

\* `step` raises e: nothing later runs, the process ends with e's status.
Raise(step, e) ==
    /\ pc' = OnRaise(step)
    /\ exc' = [kind |-> e.kind, code |-> e.code, cause |-> e.cause, at |-> step]
    /\ exitStatus' = ProcessStatus(e)

\* `step` returns: control moves to the next statement.
Return(step) ==
    /\ pc' = Successor(step)
    /\ UNCHANGED <<exc, exitStatus>>

Call(fn, arg) == [fn |-> fn, arg |-> arg]

----------------------------------------------------------------------------
\* The framework calls, as far as the script relies on them

\* add_library refuses a name the runner already has, unless told otherwise.
AddLibraryRaises(name, libraries) ==
    ~AllowDuplicate /\ \E i \in 1..Len(libraries) : libraries[i] = name

\* add_source_files refuses a pattern that matched nothing, unless told otherwise.
AddSourceFilesRaises(matched) == ~AllowEmpty /\ matched = {}

\* The library object add_library returns.
NewLibrary(name) == [name |-> name, source_files |-> <<>>, bound |-> TRUE]

\* The library object after add_source_files(pattern, vhdl_standard=standard).
WithSourceFiles(l, pattern, standard, matched) ==
    [l EXCEPT !.source_files =
        @ \o << [pattern |-> pattern, vhdl_standard |-> standard, files |-> matched] >>]

\* The status the run reports: zero when every test passed, non-zero otherwise.
RunnerStatus(o) == IF o = "pass" THEN 0 ELSE 1

----------------------------------------------------------------------------
\* The statements of the script.  `fault` is any failure inside the framework
\* that the script has no say in.

\* run.py:5  vu = VUnit.from_argv()
FromArgv ==
    /\ pc = "from_argv"
    /\ calls' = Append(calls, Call("from_argv", "argv"))
    /\ \E fault \in BOOLEAN :
         IF fault
         THEN Raise("from_argv", Error("fault")) /\ UNCHANGED vu
         ELSE IF argv = "help"
         THEN Raise("from_argv", SystemExit(0, "help")) /\ UNCHANGED vu
         ELSE IF argv = "bad"
         THEN Raise("from_argv", SystemExit(2, "usage")) /\ UNCHANGED vu
         ELSE Return("from_argv") /\ vu' = [vu EXCEPT !.bound = TRUE]
    /\ UNCHANGED <<fs, argv, lib, test_lib, globs, outcome, reported>>

\* run.py:9  vu.add_vhdl_builtins()
AddVhdlBuiltins ==
    /\ pc = "add_vhdl_builtins"
    /\ calls' = Append(calls, Call("add_vhdl_builtins", "none"))
    /\ \E fault \in BOOLEAN :
         IF fault
         THEN Raise("add_vhdl_builtins", Error("fault")) /\ UNCHANGED vu
         ELSE Return("add_vhdl_builtins") /\ vu' = [vu EXCEPT !.builtins = "vhdl"]
    /\ UNCHANGED <<fs, argv, lib, test_lib, globs, outcome, reported>>

\* run.py:14  lib = vu.add_library("dcpu16_lib")
AddLibraryDesign ==
    /\ pc = "add_library_design"
    /\ calls' = Append(calls, Call("add_library", DesignLibName))
    /\ \E fault \in BOOLEAN :
         IF fault
         THEN Raise("add_library_design", Error("fault")) /\ UNCHANGED <<vu, lib>>
         ELSE IF AddLibraryRaises(DesignLibName, vu.libraries)
         THEN Raise("add_library_design", Error("duplicate_library"))
              /\ UNCHANGED <<vu, lib>>
         ELSE /\ Return("add_library_design")
              /\ vu' = [vu EXCEPT !.libraries = Append(@, DesignLibName)]
              /\ lib' = NewLibrary(DesignLibName)
    /\ UNCHANGED <<fs, argv, test_lib, globs, outcome, reported>>

\* run.py:17  lib.add_source_files("src/*.vhd", vhdl_standard="2008")
AddSourceFilesDesign ==
    /\ pc = "add_source_files_design"
    /\ calls' = Append(calls, Call("add_source_files", DesignPattern))
    /\ \E matched \in {Glob(DesignPattern, fs)} :
       /\ globs' = Append(globs, [at |-> "add_source_files_design", matched |-> matched])
       /\ \E fault \in BOOLEAN :
            IF fault
            THEN Raise("add_source_files_design", Error("fault")) /\ UNCHANGED lib
            ELSE IF AddSourceFilesRaises(matched)
            THEN Raise("add_source_files_design", Error("pattern_matched_no_file"))
                 /\ UNCHANGED lib
            ELSE /\ Return("add_source_files_design")
                 /\ lib' = WithSourceFiles(lib, DesignPattern, VhdlStandard, matched)
    /\ UNCHANGED <<fs, argv, vu, test_lib, outcome, reported>>

\* run.py:20  test_lib = vu.add_library("dcpu16_test_lib")
AddLibraryTest ==
    /\ pc = "add_library_test"
    /\ calls' = Append(calls, Call("add_library", TestLibName))
    /\ \E fault \in BOOLEAN :
         IF fault
         THEN Raise("add_library_test", Error("fault")) /\ UNCHANGED <<vu, test_lib>>
         ELSE IF AddLibraryRaises(TestLibName, vu.libraries)
         THEN Raise("add_library_test", Error("duplicate_library"))
              /\ UNCHANGED <<vu, test_lib>>
         ELSE /\ Return("add_library_test")
              /\ vu' = [vu EXCEPT !.libraries = Append(@, TestLibName)]
              /\ test_lib' = NewLibrary(TestLibName)
    /\ UNCHANGED <<fs, argv, lib, globs, outcome, reported>>

\* run.py:21  test_lib.add_source_files("src/test/*.vhd", vhdl_standard="2008")
AddSourceFilesTest ==
    /\ pc = "add_source_files_test"
    /\ calls' = Append(calls, Call("add_source_files", TestPattern))
    /\ \E matched \in {Glob(TestPattern, fs)} :
       /\ globs' = Append(globs, [at |-> "add_source_files_test", matched |-> matched])
       /\ \E fault \in BOOLEAN :
            IF fault
            THEN Raise("add_source_files_test", Error("fault")) /\ UNCHANGED test_lib
            ELSE IF AddSourceFilesRaises(matched)
            THEN Raise("add_source_files_test", Error("pattern_matched_no_file"))
                 /\ UNCHANGED test_lib
            ELSE /\ Return("add_source_files_test")
                 /\ test_lib' = WithSourceFiles(test_lib, TestPattern, VhdlStandard, matched)
    /\ UNCHANGED <<fs, argv, vu, lib, outcome, reported>>

\* run.py:24  vu.main(): compiles, simulates, and leaves the process through
\* SystemExit with the status of the run.
Main ==
    /\ pc = "main"
    /\ calls' = Append(calls, Call("main", "none"))
    /\ \E o \in {"pass", "fail", "syntax_error"}, fault \in BOOLEAN :
         /\ outcome' = o
         /\ IF fault
            THEN Raise("main", Error("fault")) /\ UNCHANGED reported
            ELSE /\ reported' = RunnerStatus(o)
                 /\ Raise("main", SystemExit(RunnerStatus(o), "main"))
    /\ UNCHANGED <<fs, argv, vu, lib, test_lib, globs>>

\* Somebody else creates or removes a file while the script runs.
EnvChangeFs ==
    /\ pc # "exited"
    /\ \E f \in Candidates :
         fs' = IF f \in fs THEN fs \ {f} ELSE fs \cup {f}
    /\ Cardinality(fs') <= MaxFiles
    /\ UNCHANGED <<pc, argv, vu, lib, test_lib, calls, globs, outcome, reported,
                   exc, exitStatus>>

Step ==
    \/ FromArgv
    \/ AddVhdlBuiltins
    \/ AddLibraryDesign
    \/ AddSourceFilesDesign
    \/ AddLibraryTest
    \/ AddSourceFilesTest
    \/ Main

Next == Step \/ EnvChangeFs

Spec == Init /\ [][Next]_vars

\* The interpreter keeps executing the script: every call returns or raises.
FairSpec == Init /\ [][Next]_vars /\ WF_vars(Step)

----------------------------------------------------------------------------
\* What the properties below speak of

MainCalled == \E i \in 1..Len(calls) : calls[i].fn = "main"

\* The six setup statements have all returned.
SetupCompleted == pc = "main" \/ MainCalled

Registered(name) == \E i \in 1..Len(vu.libraries) : vu.libraries[i] = name

\* The calls of a complete run, as the file spells them.
ExpectedCalls ==
    << [fn |-> "from_argv", arg |-> "argv"],
       [fn |-> "add_vhdl_builtins", arg |-> "none"],
       [fn |-> "add_library", arg |-> "dcpu16_lib"],
       [fn |-> "add_source_files", arg |-> <<"s", "r", "c", "/", "*", ".", "v", "h", "d">>],
       [fn |-> "add_library", arg |-> "dcpu16_test_lib"],
       [fn |-> "add_source_files",
        arg |-> <<"s", "r", "c", "/", "t", "e", "s", "t", "/", "*", ".", "v", "h", "d">>],
       [fn |-> "main", arg |-> "none"] >>

\* f is a file directly in directory dir whose name ends in ".vhd" and does
\* not begin with a dot.
DirectVhdIn(dir, f) ==
    LET n == Len(dir) + 1 IN
    /\ Len(f) > n + 4
    /\ SubSeq(f, 1, n) = dir \o <<"/">>
    /\ \A i \in (n + 1)..Len(f) : f[i] # "/"
    /\ f[n + 1] # "."
    /\ SubSeq(f, Len(f) - 3, Len(f)) = <<".", "v", "h", "d">>

----------------------------------------------------------------------------
\* C1: the process exit status is the status the run call reported: zero
\* when every test passed, non-zero otherwise, in particular non-zero when a
\* test failed; the script puts nothing between the runner's status and the
\* process status.
C1_ExitIsRunnerStatus ==
    (pc = "exited" /\ reported >= 0) =>
        /\ exitStatus = reported
        /\ (exitStatus = 0 <=> outcome = "pass")
        /\ (outcome = "fail" => exitStatus # 0)

\* A run with a failing test has ended with the runner's non-zero status.
C1_Witness ==
    pc = "exited" /\ reported = 1 /\ outcome = "fail" /\ exitStatus = 1

\* C2: the two library names never collide (no add_library call is refused
\* as a duplicate, no name is registered twice), and once setup has completed
\* the runner's library list holds both, under two distinct names.
C2_LibrariesDistinctAndPresent ==
    /\ exc.cause # "duplicate_library"
    /\ \A i, j \in 1..Len(vu.libraries) : vu.libraries[i] = vu.libraries[j] => i = j
    /\ SetupCompleted =>
         /\ Registered("dcpu16_lib")
         /\ Registered("dcpu16_test_lib")
         /\ lib.name = "dcpu16_lib"
         /\ test_lib.name = "dcpu16_test_lib"

\* Setup has completed with two libraries registered.
C2_Witness == SetupCompleted /\ Len(vu.libraries) = 2

\* C3 as stated: an exception raised by a setup step ends the process with a
\* non-zero status, no later step runs and run is never called.
C3_AsClaimed ==
    exc.at \in SetupSteps =>
        /\ pc = "exited"
        /\ exitStatus # 0
        /\ Len(calls) = StepIndex(exc.at)
        /\ ~MainCalled

\* C3, amended: an exception raised by a setup step ends the process, no
\* later step runs and run is never called; the status is the code a
\* SystemExit carries and non-zero for every other exception, so it is zero
\* only for the parser's own exit on a help request.
C3_Amended ==
    exc.at \in SetupSteps =>
        /\ pc = "exited"
        /\ Len(calls) = StepIndex(exc.at)
        /\ ~MainCalled
        /\ IF exc.kind = "SystemExit" THEN exitStatus = exc.code ELSE exitStatus # 0
        /\ (exitStatus = 0 => (argv = "help" /\ exc.at = "from_argv"))

\* A setup step after argument parsing raised and the process ended non-zero.
C3_Witness ==
    /\ exc.at \in SetupSteps \ {"from_argv"}
    /\ pc = "exited"
    /\ exitStatus # 0

\* C4 as stated: with an accepted command line and no failure inside the
\* framework, when no file matches either pattern both add_source_files
\* calls complete, both libraries hold an empty file set, and run is reached.
C4_AsClaimed ==
    ( /\ pc = "exited"
      /\ argv = "ok"
      /\ exc.cause # "fault"
      /\ \A i \in 1..Len(globs) : globs[i].matched = {} )
    =>
    ( /\ MainCalled
      /\ Len(globs) = 2
      /\ Len(lib.source_files) = 1 /\ lib.source_files[1].files = {}
      /\ Len(test_lib.source_files) = 1 /\ test_lib.source_files[1].files = {} )

\* The run was reported on, the sources were syntactically valid and the
\* test library holds at least one file.
ValidTestsRan ==
    /\ pc = "exited"
    /\ reported >= 0
    /\ outcome # "syntax_error"
    /\ Len(test_lib.source_files) = 1
    /\ test_lib.source_files[1].files # {}

\* C5 as stated: a run over syntactically valid VHDL test files exits with
\* status 0.
C5_AsClaimed == ValidTestsRan => exitStatus = 0

\* C5, amended: a run over syntactically valid VHDL test files that reaches
\* the run call and is reported on exits with status 0 exactly when every
\* test passes, and with a non-zero status when a test fails.
C5_Amended == ValidTestsRan => (exitStatus = 0 <=> outcome = "pass")

\* Valid test files were run, all passed, and the process ended with 0.
C5_Witness == ValidTestsRan /\ outcome = "pass" /\ exitStatus = 0

\* C7: the calls made so far are always an initial part of the one fixed
\* sequence (runner, builtins, design library, its files, test library, its
\* files, run): nothing is skipped, repeated or reordered; run is called at
\* most once and only after the six setup calls; nothing follows run; files
\* are added only to a library that has been declared.
C7_FixedLinearOrder ==
    /\ Len(calls) <= Len(ExpectedCalls)
    /\ \A i \in 1..Len(calls) : calls[i] = ExpectedCalls[i]
    /\ (pc = "main" => Len(calls) = 6)
    /\ (MainCalled => (Len(calls) = 7 /\ pc = "exited"))
    /\ (lib.source_files # <<>> => (lib.bound /\ Registered(lib.name)))
    /\ (test_lib.source_files # <<>> => (test_lib.bound /\ Registered(test_lib.name)))
    /\ \A k \in 1..Len(calls) :
         calls[k].fn = "add_source_files" => (k > 1 /\ calls[k - 1].fn = "add_library")

\* All seven calls were made.
C7_Witness == Len(calls) = 7 /\ pc = "exited"

\* Each declared library carries exactly one registration, with its own
\* pattern and the standard "2008".
C8_Association ==
    /\ lib.name = "dcpu16_lib"
    /\ Len(lib.source_files) = 1
    /\ lib.source_files[1].pattern = <<"s", "r", "c", "/", "*", ".", "v", "h", "d">>
    /\ lib.source_files[1].vhdl_standard = "2008"
    /\ test_lib.name = "dcpu16_test_lib"
    /\ Len(test_lib.source_files) = 1
    /\ test_lib.source_files[1].pattern =
         <<"s", "r", "c", "/", "t", "e", "s", "t", "/", "*", ".", "v", "h", "d">>
    /\ test_lib.source_files[1].vhdl_standard = "2008"

C9_Terminates ==
    /\ <>(pc = "exited")
    /\ [](\A i, j \in 1..Len(calls) : calls[i] = calls[j] => i = j)
    /\ [](pc = "exited" => (exitStatus >= 0 /\ (exc.at \in SetupSteps \/ MainCalled)))
    /\ [](exc.at # "none" => pc = "exited")

\* A run has ended through an exception of the last setup step, run never
\* having been called.
C9_Witness ==
    pc = "exited" /\ exitStatus >= 0 /\ exc.at = "add_source_files_test" /\ ~MainCalled

\* C10: the two libraries never share a source file, whatever is on disk.
C10_LibrariesDisjoint ==
    \A i \in 1..Len(lib.source_files), j \in 1..Len(test_lib.source_files) :
        lib.source_files[i].files \cap test_lib.source_files[j].files = {}

\* Setup has completed and both libraries hold files.
C10_Witness ==
    /\ SetupCompleted
    /\ \E i \in 1..Len(lib.source_files) : lib.source_files[i].files # {}
    /\ \E j \in 1..Len(test_lib.source_files) : test_lib.source_files[j].files # {}

====
